---- MODULE Spec2Model ----
(***************************************************************************)
(* Model of targets/bmv2/pi_tables_imp.cpp: the bmv2 back-end of the PI     *)
(* table API.  The file holds the match-key decoder (build_key), the        *)
(* action-data packer (dump_action_data), the serializer of fetched         *)
(* entries (the fill pass of _pi_table_entries_fetch) and the thin          *)
(* dispatcher functions that call the bmv2 Thrift client.                   *)
(*                                                                          *)
(* Buffers are sequences of bytes (0..255) and a char* is an offset into    *)
(* one.  A uint32_t is the tuple of its four bytes, most significant first; *)
(* an int32_t is its signed value, so the casts between the two are real    *)
(* conversions.                                                             *)
(***************************************************************************)
EXTENDS Integers, Sequences, FiniteSets, TLC

\* ---------------------------------------------------------------- bounds
MaxFields == 2
MaxParams == 2
MaxEntries == 2
MaxCode == 2

\* ------------------------------------------------------- byte utilities
Fill(seed, n) == [k \in 1..n |-> (seed + 37 * (k - 1)) % 256]

Zeros(n) == [k \in 1..n |-> 0]

Slice(buf, off, n) == [k \in 1..n |-> buf[off + k]]

RECURSIVE Flatten(_)
Flatten(ss) == IF ss = <<>> THEN <<>> ELSE Head(ss) \o Flatten(Tail(ss))

RECURSIVE Sum(_)
Sum(ns) == IF ns = <<>> THEN 0 ELSE Head(ns) + Sum(Tail(ns))

RECURSIVE SeqsUpTo(_, _)
SeqsUpTo(S, n) ==
  IF n = 0 THEN {<<>>}
  ELSE LET shorter == SeqsUpTo(S, n - 1)
       IN  shorter \cup {Append(s, x) : s \in {t \in shorter : Len(t) = n - 1}, x \in S}

\* static_cast<int32_t>(uint32_t): the signed reading of the four bytes.
to_int32(w) ==
  (IF w[1] >= 128 THEN w[1] - 256 ELSE w[1]) * 16777216
    + w[2] * 65536 + w[3] * 256 + w[4]

\* The implicit conversion of an int (or a small size_t) to uint32_t.
to_uint32(v) ==
  << (v \div 16777216) % 256, (v \div 65536) % 256, (v \div 256) % 256, v % 256 >>

\* PI/int/serialize.h
retrieve_uint32(buf, off) == Slice(buf, off, 4)

emit_uint32(w) == w

emit_p4_id(id) == emit_uint32(to_uint32(id))

emit_entry_handle(h) == <<0, 0, 0, 0>> \o emit_uint32(to_uint32(h))

\* ------------------------------------------------------------- p4info
MatchTypes == {"VALID", "EXACT", "LPM", "TERNARY", "RANGE"}

FieldBitwidths == {8, 9}

FieldInfos ==
  {[match_type |-> "VALID", bitwidth |-> 1]}
    \cup [match_type : MatchTypes \ {"VALID"}, bitwidth : FieldBitwidths]

nbytes_of(bitwidth) == (bitwidth + 7) \div 8

\* Bytes one match field takes in a match key.
match_field_size(finfo) ==
  CASE finfo.match_type = "VALID"   -> 1
    [] finfo.match_type = "EXACT"   -> nbytes_of(finfo.bitwidth)
    [] finfo.match_type = "LPM"     -> nbytes_of(finfo.bitwidth) + 4
    [] finfo.match_type = "TERNARY" -> 2 * nbytes_of(finfo.bitwidth)
    [] finfo.match_type = "RANGE"   -> 2 * nbytes_of(finfo.bitwidth)

get_match_key_size(fields) ==
  Sum([i \in 1..Len(fields) |-> match_field_size(fields[i])])

get_action_data_size(actions, action_id) ==
  Sum([i \in 1..Len(actions[action_id].params) |->
         nbytes_of(actions[action_id].params[i])])

\* --------------------------------------------------------- BmMatchParam
\* The Thrift struct: a type tag and one member per match type, each
\* default-constructed by BmMatchParam().
BmMatchParam ==
  [type    |-> "NONE",
   valid   |-> [key |-> FALSE],
   exact   |-> [key |-> <<>>],
   lpm     |-> [key |-> <<>>, prefix_length |-> 0],
   ternary |-> [key |-> <<>>, mask |-> <<>>],
   range   |-> [start |-> <<>>, end_ |-> <<>>]]

\* One iteration of build_key's loop: the record decoded at mk_data[off..],
\* the number of bytes consumed and whether the field sets requires_priority.
DecodeField_RangeNoPriority(finfo, mk_data, off) ==
  LET nbytes == nbytes_of(finfo.bitwidth) IN
  CASE finfo.match_type = "VALID" ->
         [param |-> [BmMatchParam EXCEPT !.type = "VALID",
                                         !.valid = [key |-> mk_data[off + 1] # 0]],
          len |-> 1, requires_priority |-> FALSE]
    [] finfo.match_type = "EXACT" ->
         [param |-> [BmMatchParam EXCEPT !.type = "EXACT",
                                         !.exact = [key |-> Slice(mk_data, off, nbytes)]],
          len |-> nbytes, requires_priority |-> FALSE]
    [] finfo.match_type = "LPM" ->
         [param |-> [BmMatchParam EXCEPT
                       !.type = "LPM",
                       !.lpm = [key |-> Slice(mk_data, off, nbytes),
                                prefix_length |->
                                  to_int32(retrieve_uint32(mk_data, off + nbytes))]],
          len |-> nbytes + 4, requires_priority |-> FALSE]
    [] finfo.match_type = "TERNARY" ->
         [param |-> [BmMatchParam EXCEPT
                       !.type = "TERNARY",
                       !.ternary = [key |-> Slice(mk_data, off, nbytes),
                                    mask |-> Slice(mk_data, off + nbytes, nbytes)]],
          len |-> 2 * nbytes, requires_priority |-> TRUE]
    [] finfo.match_type = "RANGE" ->
         [param |-> [BmMatchParam EXCEPT
                       !.type = "RANGE",
                       !.range = [start |-> Slice(mk_data, off, nbytes),
                                  end_ |-> Slice(mk_data, off + nbytes, nbytes)]],
          len |-> 2 * nbytes, requires_priority |-> FALSE]

DecodeField(finfo, mk_data, off) ==
  LET nbytes == nbytes_of(finfo.bitwidth) IN
  CASE finfo.match_type = "VALID" ->
         [param |-> [BmMatchParam EXCEPT !.type = "VALID",
                                         !.valid = [key |-> mk_data[off + 1] # 0]],
          len |-> 1, requires_priority |-> FALSE]
    [] finfo.match_type = "EXACT" ->
         [param |-> [BmMatchParam EXCEPT !.type = "EXACT",
                                         !.exact = [key |-> Slice(mk_data, off, nbytes)]],
          len |-> nbytes, requires_priority |-> FALSE]
    [] finfo.match_type = "LPM" ->
         [param |-> [BmMatchParam EXCEPT
                       !.type = "LPM",
                       !.lpm = [key |-> Slice(mk_data, off, nbytes),
                                prefix_length |->
                                  to_int32(retrieve_uint32(mk_data, off + nbytes))]],
          len |-> nbytes + 4, requires_priority |-> FALSE]
    [] finfo.match_type = "TERNARY" ->
         [param |-> [BmMatchParam EXCEPT
                       !.type = "TERNARY",
                       !.ternary = [key |-> Slice(mk_data, off, nbytes),
                                    mask |-> Slice(mk_data, off + nbytes, nbytes)]],
          len |-> 2 * nbytes, requires_priority |-> TRUE]
    [] finfo.match_type = "RANGE" ->
         [param |-> [BmMatchParam EXCEPT
                       !.type = "RANGE",
                       !.range = [start |-> Slice(mk_data, off, nbytes),
                                  end_ |-> Slice(mk_data, off + nbytes, nbytes)]],
          len |-> 2 * nbytes, requires_priority |-> TRUE]

\* build_key: one linear pass over the table's match fields.  acc carries
\* the key built so far, the cursor and *requires_priority.
RECURSIVE build_key_loop(_, _, _, _)
build_key_loop(fields, mk_data, i, acc) ==
  IF i > Len(fields) THEN acc
  ELSE LET d == DecodeField(fields[i], mk_data, acc.off)
       IN  build_key_loop(fields, mk_data, i + 1,
             [key |-> Append(acc.key, d.param),
              off |-> acc.off + d.len,
              requires_priority |-> acc.requires_priority \/ d.requires_priority])

build_key(fields, mk_data) ==
  build_key_loop(fields, mk_data, 1,
                 [key |-> <<>>, off |-> 0, requires_priority |-> FALSE])

\* The per-type encoding of one match param in the fill pass of
\* _pi_table_entries_fetch.  *data = p.valid.key stores a bool: 0 or 1.
EmitMatchParam_LpmLengthFirst(p) ==
  CASE p.type = "EXACT"   -> p.exact.key
    [] p.type = "LPM"     -> emit_uint32(to_uint32(p.lpm.prefix_length)) \o p.lpm.key
    [] p.type = "TERNARY" -> p.ternary.key \o p.ternary.mask
    [] p.type = "VALID"   -> <<IF p.valid.key THEN 1 ELSE 0>>
    [] p.type = "RANGE"   -> p.range.start \o p.range.end_
    [] OTHER              -> <<>>

EmitMatchParam(p) ==
  CASE p.type = "EXACT"   -> p.exact.key
    [] p.type = "LPM"     -> p.lpm.key \o emit_uint32(to_uint32(p.lpm.prefix_length))
    [] p.type = "TERNARY" -> p.ternary.key \o p.ternary.mask
    [] p.type = "VALID"   -> <<IF p.valid.key THEN 1 ELSE 0>>
    [] p.type = "RANGE"   -> p.range.start \o p.range.end_
    [] OTHER              -> <<>>

EmitMatchKey(key) == Flatten([i \in 1..Len(key) |-> EmitMatchParam(key[i])])

\* ----------------------------------------------------- dump_action_data
\* assert(num_params == params.size())
CountMatches_Off(decl, params) == TRUE

CountMatches(decl, params) == Len(decl) = Len(params)

\* assert(nbytes >= p.size())
ParamFits_Off(nbytes, p) == TRUE

ParamFits(nbytes, p) == nbytes >= Len(p)

\* memset(data, 0, diff); memcpy(data + diff, p.data(), p.size())
PackParam_PadRight(nbytes, p) == p \o Zeros(nbytes - Len(p))

PackParam(nbytes, p) == Zeros(nbytes - Len(p)) \o p

\* The loop of dump_action_data.  data is the buffer up to the cursor; the
\* result has ok = FALSE when an assert fails (the process aborts), with the
\* failed assertion in err.
RECURSIVE dump_action_data_loop(_, _, _, _)
dump_action_data_loop(decl, params, i, data) ==
  IF i > Len(decl) THEN [ok |-> TRUE, err |-> "none", data |-> data]
  ELSE LET nbytes == nbytes_of(decl[i])
           p == params[i]
       IN  IF ~ParamFits(nbytes, p)
             THEN [ok |-> FALSE, err |-> "param_size", data |-> data]
             ELSE dump_action_data_loop(decl, params, i + 1,
                                        data \o PackParam(nbytes, p))

dump_action_data(actions, data, action_id, params) ==
  LET decl == actions[action_id].params
  IN  IF ~CountMatches(decl, params)
        THEN [ok |-> FALSE, err |-> "num_params", data |-> data]
        ELSE dump_action_data_loop(decl, params, 1, data)

\* ---------------------------------------------------------------- state
VARIABLES
  p4info,        \* the schema: match fields, actions, const default action
  req,           \* the call being served: the operation and its arguments
  bm,            \* what the bmv2 device holds for the table
  pc,            \* "call", "ret" (a status was returned), "abort" (assert)
  status,        \* the pi_status_t returned
  entry_handle,  \* the caller's *entry_handle
  table_entry,   \* the caller's *table_entry of default_action_get
  res,           \* the caller's *res of entries_fetch
  trace,         \* device calls and assert failures of the call, in order
  local          \* results of the codec functions

vars == <<p4info, req, bm, pc, status, entry_handle, table_entry, res, trace, local>>

NoStatus == [base |-> "NONE", offset |-> 0]

NoP4info == [fields |-> <<>>, actions |-> <<>>, const_default |-> 0]

NoDevice == [entries |-> <<>>, default_entry |-> [action_type |-> "NONE"]]

Unset == "unset"

\* The caller's output objects before the call: nothing written to them.
UnsetHandle == [written |-> FALSE, value |-> 0]

UnsetTableEntry == [written |-> FALSE, entry_type |-> Unset, action_data |-> Unset]

UnsetRes == [written |-> FALSE]

CallerState ==
  /\ pc = "call"
  /\ status = NoStatus
  /\ entry_handle = UnsetHandle
  /\ table_entry = UnsetTableEntry
  /\ res = UnsetRes
  /\ trace = <<>>
  /\ local = Unset

\* ------------------------------------------------ the match-key codec
KeySeeds == {0, 1, 2, 200}

InitKey ==
  /\ CallerState
  /\ bm = NoDevice
  /\ \E fields \in SeqsUpTo(FieldInfos, MaxFields) :
       /\ p4info = [NoP4info EXCEPT !.fields = fields]
       /\ \E seed \in KeySeeds :
            req = [op |-> "build_key",
                   match_key |-> Fill(seed, get_match_key_size(fields))]

\* build_key on the caller's buffer.
BuildKeyCall ==
  /\ pc = "call"
  /\ req.op = "build_key"
  /\ LET r == build_key(p4info.fields, req.match_key)
     IN  local' = [key |-> r.key, requires_priority |-> r.requires_priority,
                   consumed |-> r.off]
  /\ pc' = "decoded"
  /\ UNCHANGED <<p4info, req, bm, status, entry_handle, table_entry, res, trace>>

\* The fill pass's encoding of the decoded records.
EmitKeyCall ==
  /\ pc = "decoded"
  /\ local' = [key |-> local.key, requires_priority |-> local.requires_priority,
               consumed |-> local.consumed, rebuf |-> EmitMatchKey(local.key)]
  /\ pc' = "encoded"
  /\ UNCHANGED <<p4info, req, bm, status, entry_handle, table_entry, res, trace>>

\* build_key on the re-encoded buffer.
RebuildKeyCall ==
  /\ pc = "encoded"
  /\ local' = [key |-> local.key, requires_priority |-> local.requires_priority,
               consumed |-> local.consumed, rebuf |-> local.rebuf,
               rekey |-> build_key(p4info.fields, local.rebuf).key]
  /\ pc' = "redecoded"
  /\ UNCHANGED <<p4info, req, bm, status, entry_handle, table_entry, res, trace>>

NextKey == BuildKeyCall \/ EmitKeyCall \/ RebuildKeyCall

SpecKey == InitKey /\ [][NextKey]_vars

\* ------------------------------------------------ the action-data codec
ParamBitwidths == {8, 9, 32}

ParamStrings == {Fill(5, n) : n \in 0..5}

DataPrefixes == {<<>>, <<170>>}

InitPack ==
  /\ CallerState
  /\ bm = NoDevice
  /\ \E decl \in SeqsUpTo(ParamBitwidths, MaxParams) :
       p4info = [NoP4info EXCEPT !.actions = <<[name |-> "a1", params |-> decl]>>]
  /\ \E params \in SeqsUpTo(ParamStrings, MaxParams + 1), data \in DataPrefixes :
       req = [op |-> "dump_action_data", data |-> data, action_id |-> 1,
              params |-> params]

DumpActionDataCall ==
  /\ pc = "call"
  /\ req.op = "dump_action_data"
  /\ LET r == dump_action_data(p4info.actions, req.data, req.action_id, req.params)
     IN  /\ local' = [data |-> r.data]
         /\ pc' = IF r.ok THEN "ret" ELSE "abort"
         /\ trace' = IF r.ok THEN trace ELSE <<[ev |-> "assert", what |-> r.err]>>
  /\ UNCHANGED <<p4info, req, bm, status, entry_handle, table_entry, res>>

NextPack == DumpActionDataCall

SpecPack == InitPack /\ [][NextPack]_vars

\* ============================================================== claims
\* of the codecs

\* Positions (1-based) of the bytes of VALID fields in a match key.
ValidPositions(fields) ==
  {get_match_key_size(SubSeq(fields, 1, i - 1)) + 1 :
     i \in {j \in 1..Len(fields) : fields[j].match_type = "VALID"}}

\* C3 as stated: decoding a match-key buffer with build_key and re-encoding
\* the records with the fill pass's per-type encoding gives back the
\* original bytes, and decoding the encoding of a record gives back the
\* record, for every match type.
C3_RoundTripExact ==
  pc = "redecoded" =>
    /\ local.rebuf = req.match_key
    /\ local.rekey = local.key

\* C3 amended: the bytes come back unchanged except that the byte of a VALID
\* field comes back as 1 whenever it was nonzero (so the buffer round-trips
\* exactly when every VALID byte is 0 or 1); the record round trip is exact.
C3_RoundTripCanonical ==
  pc = "redecoded" =>
    /\ local.rekey = local.key
    /\ Len(local.rebuf) = Len(req.match_key)
    /\ local.consumed = Len(req.match_key)
    /\ \A k \in 1..Len(req.match_key) :
         local.rebuf[k] =
           IF k \in ValidPositions(p4info.fields)
             THEN (IF req.match_key[k] # 0 THEN 1 ELSE 0)
             ELSE req.match_key[k]

C3_Witness ==
  /\ pc = "redecoded"
  /\ Len(p4info.fields) = 2
  /\ p4info.fields[1].match_type = "VALID"
  /\ p4info.fields[2] = [match_type |-> "LPM", bitwidth |-> 9]
  /\ req.match_key[1] = 1
  /\ local.key[2].lpm.prefix_length # 0
  /\ local.rebuf = req.match_key

HasTernaryOrRange(fields) ==
  \E i \in 1..Len(fields) : fields[i].match_type \in {"TERNARY", "RANGE"}

\* C4: build_key returns requires_priority = true exactly when the table's
\* match fields include a TERNARY or a RANGE field, whatever their order,
\* and false for the empty key.
C4_RequiresPriorityIff ==
  (req.op = "build_key" /\ pc # "call") =>
    (local.requires_priority <=> HasTernaryOrRange(p4info.fields))

C4_Witness ==
  /\ pc = "decoded"
  /\ Len(p4info.fields) = 2
  /\ p4info.fields[1].match_type = "EXACT"
  /\ p4info.fields[2].match_type = "RANGE"
  /\ local.requires_priority

\* The padded form of the parameters: each one right-aligned in a slot of
\* its declared byte width.
PaddedParams(decl, params) ==
  Flatten([i \in 1..Len(decl) |->
             Zeros(nbytes_of(decl[i]) - Len(params[i])) \o params[i]])

\* C8: dump_action_data writes, per parameter and in order, (declared byte
\* width - actual length) zero bytes then the parameter's bytes, nothing in
\* between, and advances the cursor by the sum of the declared byte widths.
C8_PackPadsLeft ==
  (req.op = "dump_action_data" /\ pc = "ret") =>
    LET decl == p4info.actions[req.action_id].params
    IN  /\ local.data = req.data \o PaddedParams(decl, req.params)
        /\ Len(local.data) - Len(req.data) =
             Sum([i \in 1..Len(decl) |-> nbytes_of(decl[i])])

C8_Witness ==
  /\ req.op = "dump_action_data"
  /\ pc = "ret"
  /\ p4info.actions[1].params = <<32, 9>>
  /\ req.params = << <<5>>, <<5>> >>
  /\ req.data = <<170>>
  /\ local.data = <<170, 0, 0, 0, 5, 0, 5>>

Oversized(decl, params) ==
  \E i \in 1..Len(decl) :
    i <= Len(params) /\ Len(params[i]) > nbytes_of(decl[i])

\* C9: dump_action_data fails fatally (the process aborts, nothing is
\* returned) whenever the number of parameters differs from the declared
\* count or some parameter is longer than its declared byte width.
C9_PackRejects ==
  (req.op = "dump_action_data" /\ pc # "call") =>
    LET decl == p4info.actions[req.action_id].params
    IN  (Len(decl) # Len(req.params) \/ Oversized(decl, req.params))
          => pc = "abort"

C9_Witness ==
  /\ req.op = "dump_action_data"
  /\ pc = "abort"
  /\ p4info.actions[1].params = <<32>>
  /\ Len(req.params) = 1
  /\ Len(req.params[1]) = 5

\* =========================================================== dispatcher
PI_STATUS_SUCCESS == [base |-> "PI_STATUS_SUCCESS", offset |-> 0]

PI_STATUS_CONST_DEFAULT_ACTION == [base |-> "PI_STATUS_CONST_DEFAULT_ACTION", offset |-> 0]

\* static_cast<pi_status_t>(PI_STATUS_TARGET_ERROR + ito.code)
TargetError_NoCode(code) == [base |-> "PI_STATUS_TARGET_ERROR", offset |-> 0]

TargetError(code) == [base |-> "PI_STATUS_TARGET_ERROR", offset |-> code]

\* The bit position of the priority property in the properties bitmap.
PI_ENTRY_PROPERTY_TYPE_PRIORITY == 0

pi_p4info_action_name_from_id(actions, id) == actions[id].name

pi_p4info_action_id_from_name(actions, name) ==
  CHOOSE id \in 1..Len(actions) : actions[id].name = name

\* pibmv2::build_action_data: the caller's packed action data cut into one
\* string per parameter, each of its declared byte width.
RECURSIVE build_action_data_loop(_, _, _)
build_action_data_loop(decl, data, off) ==
  IF decl = <<>> THEN <<>>
  ELSE <<Slice(data, off, nbytes_of(Head(decl)))>>
         \o build_action_data_loop(Tail(decl), data, off + nbytes_of(Head(decl)))

build_action_data(adata, actions) ==
  build_action_data_loop(actions[adata.action_id].params, adata.data, 0)

\* What one call of the Thrift client does: it returns, or it throws
\* InvalidTableOperation with a code.
DeviceOutcomes ==
  {[ok |-> TRUE, code |-> 0]} \cup {[ok |-> FALSE, code |-> c] : c \in 1..MaxCode}

DeviceHandles == {0, 7}

DeviceCall(fn, args, out) == [ev |-> "device", fn |-> fn, args |-> args, out |-> out]

AssertFailed(what) == [ev |-> "assert", what |-> what]

\* The catch block shared by every dispatcher function.
CatchInvalidTableOperation(ito) ==
  /\ status' = TargetError(ito.code)
  /\ pc' = "ret"

\* ------------------------------------------------- _pi_table_entry_add
BmAddEntryOptions == [isset_priority |-> FALSE, priority |-> 0]

\* Lines 204-214: the options sent with the entry.
AddEntryOptions_CallerDecides(requires_priority, te) ==
  IF ~te.entry_properties.is_null /\ te.entry_properties.priority_set
    THEN [isset_priority |-> TRUE, priority |-> te.entry_properties.priority]
    ELSE BmAddEntryOptions

AddEntryOptions(requires_priority, te) ==
  IF requires_priority
    THEN [isset_priority |-> TRUE,
          priority |-> IF ~te.entry_properties.is_null
                          /\ te.entry_properties.priority_set
                         THEN te.entry_properties.priority
                         ELSE 0]
    ELSE BmAddEntryOptions

add_entry(actions, t_name, mkey, adata, options, out) ==
  DeviceCall("bm_mt_add_entry",
             [t_name |-> t_name, mkey |-> mkey,
              a_name |-> pi_p4info_action_name_from_id(actions, adata.action_id),
              action_data |-> build_action_data(adata, actions),
              options |-> options],
             out)

add_indirect_entry(t_name, mkey, h, options, out) ==
  DeviceCall(IF ~h.is_grp_h THEN "bm_mt_indirect_add_entry"
                            ELSE "bm_mt_indirect_ws_add_entry",
             [t_name |-> t_name, mkey |-> mkey, h |-> h.value, options |-> options],
             out)

pi_table_entry_add ==
  /\ pc = "call"
  /\ req.op = "entry_add"
  /\ LET bk == build_key(p4info.fields, req.match_key)
         te == req.table_entry
         options == AddEntryOptions(bk.requires_priority, te)
     IN  \E out \in DeviceOutcomes, h \in DeviceHandles :
           /\ local' = [key |-> bk.key, requires_priority |-> bk.requires_priority,
                        options |-> options]
           /\ trace' = <<[ev |-> "build_key"],
                         IF te.entry_type = "DATA"
                           THEN add_entry(p4info.actions, "t", bk.key,
                                          te.entry.action_data, options, out)
                           ELSE add_indirect_entry("t", bk.key,
                                                   te.entry.indirect_handle,
                                                   options, out)>>
           /\ IF out.ok
                THEN /\ entry_handle' = [written |-> TRUE, value |-> h]
                     /\ status' = PI_STATUS_SUCCESS
                     /\ pc' = "ret"
                ELSE /\ h = 0
                     /\ CatchInvalidTableOperation(out)
                     /\ UNCHANGED entry_handle
  /\ UNCHANGED <<p4info, req, bm, table_entry, res>>

\* ---------------------------------------- _pi_table_default_action_set
\* Lines 256-261: the const default action of the table forbids the action.
ConstDefaultConflict_Off(const_default, action_id) == FALSE

ConstDefaultConflict(const_default, action_id) ==
  const_default # 0 /\ const_default # action_id

pi_table_default_action_set ==
  /\ pc = "call"
  /\ req.op = "default_action_set"
  /\ LET adata == req.table_entry.entry.action_data
     IN  IF ConstDefaultConflict(p4info.const_default, adata.action_id)
           THEN /\ status' = PI_STATUS_CONST_DEFAULT_ACTION
                /\ pc' = "ret"
                /\ UNCHANGED trace
           ELSE \E out \in DeviceOutcomes :
                  /\ trace' = <<DeviceCall("bm_mt_set_default_action",
                                  [t_name |-> "t",
                                   a_name |-> pi_p4info_action_name_from_id(
                                                p4info.actions, adata.action_id),
                                   action_data |-> build_action_data(adata, p4info.actions)],
                                  out)>>
                  /\ IF out.ok
                       THEN status' = PI_STATUS_SUCCESS /\ pc' = "ret"
                       ELSE CatchInvalidTableOperation(out)
  /\ UNCHANGED <<p4info, req, bm, entry_handle, table_entry, res, local>>

\* ---------------------------------------- _pi_table_default_action_get
pi_table_default_action_get ==
  /\ pc = "call"
  /\ req.op = "default_action_get"
  /\ \E out \in DeviceOutcomes :
       LET call == DeviceCall("bm_mt_get_default_entry", [t_name |-> "t"], out)
           entry == bm.default_entry
       IN  IF ~out.ok
             THEN /\ CatchInvalidTableOperation(out)
                  /\ trace' = <<call>>
                  /\ UNCHANGED <<table_entry, local>>
           ELSE IF entry.action_type = "NONE"
             THEN /\ table_entry' = [table_entry EXCEPT !.written = TRUE,
                                                        !.entry_type = "NONE"]
                  /\ status' = PI_STATUS_SUCCESS
                  /\ pc' = "ret"
                  /\ trace' = <<call>>
                  /\ UNCHANGED local
           ELSE IF entry.action_type # "ACTION_DATA"
             THEN /\ pc' = "abort"
                  /\ trace' = <<call, AssertFailed("action_type")>>
                  /\ UNCHANGED <<table_entry, status, local>>
           ELSE LET action_id == pi_p4info_action_id_from_name(p4info.actions,
                                                               entry.action_name)
                    adata_size == get_action_data_size(p4info.actions, action_id)
                    d == dump_action_data(p4info.actions, <<>>, action_id,
                                          entry.action_data)
                IN  /\ table_entry' =
                         [written |-> TRUE, entry_type |-> "DATA",
                          action_data |-> [action_id |-> action_id,
                                           data_size |-> adata_size,
                                           data |-> d.data]]
                    /\ local' = [data |-> d.data]
                    /\ IF d.ok
                         THEN /\ status' = PI_STATUS_SUCCESS
                              /\ pc' = "ret"
                              /\ trace' = <<call, [ev |-> "dump_action_data"]>>
                         ELSE /\ pc' = "abort"
                              /\ trace' = <<call, [ev |-> "dump_action_data"],
                                            AssertFailed(d.err)>>
                              /\ UNCHANGED status
  /\ UNCHANGED <<p4info, req, bm, entry_handle, res>>

\* ------------------------- _pi_table_entry_delete, _pi_table_entry_modify
pi_table_entry_delete ==
  /\ pc = "call"
  /\ req.op = "entry_delete"
  /\ \E out \in DeviceOutcomes :
       /\ trace' = <<DeviceCall("bm_mt_delete_entry",
                                [t_name |-> "t", entry_handle |-> req.entry_handle],
                                out)>>
       /\ IF out.ok
            THEN status' = PI_STATUS_SUCCESS /\ pc' = "ret"
            ELSE CatchInvalidTableOperation(out)
  /\ UNCHANGED <<p4info, req, bm, entry_handle, table_entry, res, local>>

pi_table_entry_modify ==
  /\ pc = "call"
  /\ req.op = "entry_modify"
  /\ LET adata == req.table_entry.entry.action_data
     IN  \E out \in DeviceOutcomes :
           /\ trace' = <<DeviceCall("bm_mt_modify_entry",
                           [t_name |-> "t", entry_handle |-> req.entry_handle,
                            a_name |-> pi_p4info_action_name_from_id(
                                         p4info.actions, adata.action_id),
                            action_data |-> build_action_data(adata, p4info.actions)],
                           out)>>
           /\ IF out.ok
                THEN status' = PI_STATUS_SUCCESS /\ pc' = "ret"
                ELSE CatchInvalidTableOperation(out)
  /\ UNCHANGED <<p4info, req, bm, entry_handle, table_entry, res, local>>

\* --------------------------------------------- _pi_table_entries_fetch
\* Lines 450-467: action name -> (id, action data size), for the table's actions.
ActionMap(actions) ==
  [name \in {actions[i].name : i \in 1..Len(actions)} |->
     LET id == pi_p4info_action_id_from_name(actions, name)
     IN  [id |-> id, s |-> get_action_data_size(actions, id)]]

\* Lines 438-471: the size pass.
DataSize_PriorityBitmapOnly(entries, mkey_nbytes, action_map) ==
  Len(entries) * 8
    + Len(entries) * 4
    + Len(entries) * 4
    + Len(entries) * 4
    + Len(entries) * mkey_nbytes
    + Sum([i \in 1..Len(entries) |-> action_map[entries[i].action_entry.action_name].s])

DataSize(entries, mkey_nbytes, action_map) ==
  Len(entries) * 8
    + Len(entries) * 4
    + Len(entries) * 4
    + Len(entries) * 2 * 4
    + Len(entries) * mkey_nbytes
    + Sum([i \in 1..Len(entries) |-> action_map[entries[i].action_entry.action_name].s])

\* Lines 518-524: the properties bitmap, then the priority when it is set.
EmitProperties_AlwaysPriority(options) ==
  IF options.isset_priority
    THEN emit_uint32(to_uint32(2 ^ PI_ENTRY_PROPERTY_TYPE_PRIORITY))
           \o emit_uint32(to_uint32(options.priority))
    ELSE emit_uint32(to_uint32(0)) \o emit_uint32(to_uint32(0))

EmitProperties(options) ==
  IF options.isset_priority
    THEN emit_uint32(to_uint32(2 ^ PI_ENTRY_PROPERTY_TYPE_PRIORITY))
           \o emit_uint32(to_uint32(options.priority))
    ELSE emit_uint32(to_uint32(0))

\* Lines 478-524: one iteration of the fill pass, appending entry e to data.
EmitEntry(actions, action_map, data, e) ==
  LET d1 == data \o emit_entry_handle(e.entry_handle) \o EmitMatchKey(e.match_key)
  IN  IF e.action_entry.action_type # "ACTION_DATA"
        THEN [ok |-> FALSE, err |-> "action_type", data |-> d1]
        ELSE LET adata_size == action_map[e.action_entry.action_name]
                 d2 == d1 \o emit_p4_id(adata_size.id)
                          \o emit_uint32(to_uint32(adata_size.s))
                 d3 == dump_action_data(actions, d2, adata_size.id,
                                        e.action_entry.action_data)
             IN  IF ~d3.ok THEN d3
                 ELSE [ok |-> TRUE, err |-> "none",
                       data |-> d3.data \o EmitProperties(e.options)]

\* Lines 477-525: the fill pass; it stops at the first failed assert.
RECURSIVE FillEntries(_, _, _, _, _)
FillEntries(actions, action_map, entries, i, data) ==
  IF i > Len(entries) THEN [ok |-> TRUE, err |-> "none", data |-> data]
  ELSE LET r == EmitEntry(actions, action_map, data, entries[i])
       IN  IF ~r.ok THEN r
           ELSE FillEntries(actions, action_map, entries, i + 1, r.data)

\* res->entries points to a buffer of data_size bytes (capacity) of which
\* the fill pass has written the bytes in written, from the start.
pi_table_entries_fetch ==
  /\ pc = "call"
  /\ req.op = "entries_fetch"
  /\ \E out \in DeviceOutcomes :
       LET call == DeviceCall("bm_mt_get_entries", [t_name |-> "t"], out)
           entries == bm.entries
           mkey_nbytes == get_match_key_size(p4info.fields)
           action_map == ActionMap(p4info.actions)
           data_size == DataSize(entries, mkey_nbytes, action_map)
           fill == FillEntries(p4info.actions, action_map, entries, 1, <<>>)
       IN  IF ~out.ok
             THEN /\ CatchInvalidTableOperation(out)
                  /\ trace' = <<call>>
                  /\ UNCHANGED <<res, local>>
             ELSE /\ res' = [written |-> TRUE,
                             num_entries |-> Len(entries),
                             mkey_nbytes |-> mkey_nbytes,
                             entries_size |-> data_size,
                             entries |-> [capacity |-> data_size,
                                          written |-> fill.data]]
                  /\ local' = [data |-> fill.data]
                  /\ IF fill.ok
                       THEN /\ status' = PI_STATUS_SUCCESS
                            /\ pc' = "ret"
                            /\ trace' = <<call, [ev |-> "fill"]>>
                       ELSE /\ pc' = "abort"
                            /\ trace' = <<call, [ev |-> "fill"], AssertFailed(fill.err)>>
                            /\ UNCHANGED status
  /\ UNCHANGED <<p4info, req, bm, entry_handle, table_entry>>

\* ------------------------------------------------------ the requests
TableFieldInfos ==
  {[match_type |-> "VALID", bitwidth |-> 1],
   [match_type |-> "EXACT", bitwidth |-> 8],
   [match_type |-> "LPM", bitwidth |-> 9],
   [match_type |-> "TERNARY", bitwidth |-> 16],
   [match_type |-> "RANGE", bitwidth |-> 8]}

TableActions ==
  <<[name |-> "a1", params |-> <<>>], [name |-> "a2", params |-> <<9, 32>>]>>

TableP4info(fields) == [fields |-> fields, actions |-> TableActions, const_default |-> 0]

CallerActionData(action_id) ==
  [action_id |-> action_id,
   data |-> Fill(3, get_action_data_size(TableActions, action_id))]

EntryProperties ==
  {[is_null |-> TRUE, priority_set |-> FALSE, priority |-> 0],
   [is_null |-> FALSE, priority_set |-> FALSE, priority |-> 9],
   [is_null |-> FALSE, priority_set |-> TRUE, priority |-> 9]}

AddTableEntries ==
  {[entry_type |-> "DATA",
    entry |-> [action_data |-> CallerActionData(2),
               indirect_handle |-> [is_grp_h |-> FALSE, value |-> 0]],
    entry_properties |-> pr] : pr \in EntryProperties}
  \cup
  {[entry_type |-> "INDIRECT",
    entry |-> [action_data |-> CallerActionData(1),
               indirect_handle |-> [is_grp_h |-> g, value |-> 4]],
    entry_properties |-> pr] : pr \in EntryProperties, g \in BOOLEAN}

\* What the device may return as a table's default entry.
DeviceActionEntries ==
  {[action_type |-> "ACTION_DATA", action_name |-> "a1", action_data |-> <<>>],
   [action_type |-> "ACTION_DATA", action_name |-> "a2",
    action_data |-> <<Fill(5, 2), Fill(9, 4)>>],
   [action_type |-> "ACTION_DATA", action_name |-> "a2",
    action_data |-> << <<1>>, <<>> >>],
   [action_type |-> "ACTION_DATA", action_name |-> "a2",
    action_data |-> <<Fill(5, 3), Fill(9, 4)>>],
   [action_type |-> "ACTION_DATA", action_name |-> "a2",
    action_data |-> <<Fill(5, 2)>>],
   [action_type |-> "ACTION_DATA", action_name |-> "a1",
    action_data |-> << <<1>> >>]}

DeviceDefaultEntries ==
  DeviceActionEntries
    \cup {[action_type |-> "NONE", action_name |-> "", action_data |-> <<>>],
          [action_type |-> "INDIRECT", action_name |-> "", action_data |-> <<>>]}

DeviceEntry(fields, h, seed, action_entry, isset, priority) ==
  [entry_handle |-> h,
   match_key |-> build_key(fields, Fill(seed, get_match_key_size(fields))).key,
   action_entry |-> action_entry,
   options |-> [isset_priority |-> isset, priority |-> priority]]

ActionEntry(name, action_data) ==
  [action_type |-> "ACTION_DATA", action_name |-> name, action_data |-> action_data]

\* What the device may hold as an entry of a table with these match fields.
DeviceEntries(fields) ==
  {DeviceEntry(fields, 7, 1, ActionEntry("a1", <<>>), FALSE, 0),
   DeviceEntry(fields, 7, 1, ActionEntry("a1", <<>>), TRUE, 5),
   DeviceEntry(fields, 300, 200, ActionEntry("a2", <<Fill(5, 2), Fill(9, 4)>>),
               TRUE, 70000),
   DeviceEntry(fields, 300, 200, ActionEntry("a2", << <<1>>, <<>> >>), FALSE, 0),
   DeviceEntry(fields, 9, 0, ActionEntry("a2", <<Fill(5, 3), Fill(9, 4)>>), FALSE, 0),
   DeviceEntry(fields, 9, 0, ActionEntry("a1", << <<1>> >>), TRUE, 1)}

InitAdd ==
  /\ bm = NoDevice
  /\ \E fields \in SeqsUpTo(TableFieldInfos, MaxFields), seed \in {1, 200},
        te \in AddTableEntries :
       /\ p4info = TableP4info(fields)
       /\ req = [op |-> "entry_add",
                 match_key |-> Fill(seed, get_match_key_size(fields)),
                 table_entry |-> te]

InitDefaultSet ==
  /\ bm = NoDevice
  /\ \E c \in 0..Len(TableActions), a \in 1..Len(TableActions) :
       /\ p4info = [TableP4info(<<>>) EXCEPT !.const_default = c]
       /\ req = [op |-> "default_action_set",
                 table_entry |-> [entry |-> [action_data |-> CallerActionData(a)]]]

InitDefaultGet ==
  /\ p4info = TableP4info(<<>>)
  /\ req = [op |-> "default_action_get"]
  /\ \E e \in DeviceDefaultEntries : bm = [NoDevice EXCEPT !.default_entry = e]

InitDelete ==
  /\ p4info = TableP4info(<<>>)
  /\ bm = NoDevice
  /\ \E h \in DeviceHandles : req = [op |-> "entry_delete", entry_handle |-> h]

InitModify ==
  /\ p4info = TableP4info(<<>>)
  /\ bm = NoDevice
  /\ \E h \in DeviceHandles, a \in 1..Len(TableActions) :
       req = [op |-> "entry_modify", entry_handle |-> h,
              table_entry |-> [entry |-> [action_data |-> CallerActionData(a)]]]

InitFetch ==
  /\ req = [op |-> "entries_fetch"]
  /\ \E fields \in SeqsUpTo(TableFieldInfos, MaxFields) :
       /\ p4info = TableP4info(fields)
       /\ \E entries \in SeqsUpTo(DeviceEntries(fields), MaxEntries) :
            bm = [NoDevice EXCEPT !.entries = entries]

Init ==
  /\ CallerState
  /\ \/ InitAdd
     \/ InitDefaultSet
     \/ InitDefaultGet
     \/ InitDelete
     \/ InitModify
     \/ InitFetch

Next ==
  \/ pi_table_entry_add
  \/ pi_table_default_action_set
  \/ pi_table_default_action_get
  \/ pi_table_entry_delete
  \/ pi_table_entry_modify
  \/ pi_table_entries_fetch

Spec == Init /\ [][Next]_vars

\* ============================================================== claims
\* of the dispatcher

FetchReturned ==
  req.op = "entries_fetch" /\ pc = "ret" /\ status = PI_STATUS_SUCCESS

\* C1 as stated: after a successful fetch the length reported to the caller,
\* res->entries_size, is the number of bytes the fill pass wrote.
C1_ReportsWrittenLength ==
  FetchReturned => res.entries_size = Len(res.entries.written)

DeclaredSize(actions, name) ==
  LET decl == actions[pi_p4info_action_id_from_name(actions, name)].params
  IN  Sum([i \in 1..Len(decl) |-> nbytes_of(decl[i])])

\* C2: the size computed by the size pass, N*8 + N*mkey_nbytes + N*4 + N*4
\* + N*8 + the sum of the entries' action data sizes, is at least the number
\* of bytes the fill pass writes: the cursor stays inside the buffer.
C2_AllocationSufficient ==
  (req.op = "entries_fetch" /\ res.written) =>
    LET N == Len(bm.entries)
    IN  /\ res.entries.capacity =
             N * 8 + N * res.mkey_nbytes + N * 4 + N * 4 + N * 8
               + Sum([i \in 1..N |-> DeclaredSize(p4info.actions, bm.entries[i].action_entry.action_name)])
        /\ Len(res.entries.written) <= res.entries.capacity

C2_Witness ==
  /\ FetchReturned
  /\ Len(bm.entries) = 2
  /\ Len(p4info.fields) = 2
  /\ bm.entries[1].options.isset_priority
  /\ ~bm.entries[2].options.isset_priority
  /\ Len(res.entries.written) = res.entries.capacity - 4

\* C5: default_action_set with an action other than the table's const
\* default action returns PI_STATUS_CONST_DEFAULT_ACTION without a device
\* call; otherwise the request goes to the device.
C5_ConstDefaultRejected ==
  (req.op = "default_action_set" /\ pc # "call") =>
    LET X == req.table_entry.entry.action_data.action_id
        Y == p4info.const_default
    IN  IF Y # 0 /\ X # Y
          THEN status = PI_STATUS_CONST_DEFAULT_ACTION /\ trace = <<>>
          ELSE /\ Len(trace) = 1
               /\ trace[1].ev = "device"
               /\ trace[1].fn = "bm_mt_set_default_action"
               /\ status # PI_STATUS_CONST_DEFAULT_ACTION

C5_Witness ==
  /\ req.op = "default_action_set"
  /\ pc = "ret"
  /\ p4info.const_default = 1
  /\ req.table_entry.entry.action_data.action_id = 2
  /\ status = PI_STATUS_CONST_DEFAULT_ACTION

DispatcherOps ==
  {"entry_add", "default_action_set", "default_action_get", "entry_delete",
   "entry_modify", "entries_fetch"}

DeviceEvents == {i \in 1..Len(trace) : trace[i].ev = "device"}

\* C6: when the device call of an operation throws InvalidTableOperation
\* with code c, the operation returns PI_STATUS_TARGET_ERROR + c, does
\* nothing after the call (no inverse translation) and writes to none of
\* the caller's outputs.
C6_DeviceErrorSurfaced ==
  (req.op \in DispatcherOps /\ pc # "call") =>
    \A i \in DeviceEvents :
      ~trace[i].out.ok =>
        /\ pc = "ret"
        /\ status = [base |-> "PI_STATUS_TARGET_ERROR", offset |-> trace[i].out.code]
        /\ i = Len(trace)
        /\ DeviceEvents = {i}
        /\ ~entry_handle.written
        /\ ~table_entry.written
        /\ ~res.written

C6_Witness ==
  /\ req.op = "entries_fetch"
  /\ pc = "ret"
  /\ Len(bm.entries) = 2
  /\ Len(trace) = 1
  /\ ~trace[1].out.ok
  /\ status = [base |-> "PI_STATUS_TARGET_ERROR", offset |-> 2]
  /\ ~res.written

\* A reader of the fetch result that knows the table's match fields and
\* actions; the buffer is read with zeros after its end.
ReadEntry(fields, actions, buf, off) ==
  LET padded == buf \o Zeros(off + 64)
      k == build_key_loop(fields, padded, 1,
                          [key |-> <<>>, off |-> off + 8, requires_priority |-> FALSE])
      action_id == to_int32(Slice(padded, k.off, 4))
      known == action_id \in 1..Len(actions)
      size == IF known THEN get_action_data_size(actions, action_id) ELSE 0
      poff == k.off + 8 + size
      bitmap == to_int32(Slice(padded, poff, 4))
      has == (bitmap \div (2 ^ PI_ENTRY_PROPERTY_TYPE_PRIORITY)) % 2 = 1
  IN  [entry |->
         [handle_hi |-> to_int32(Slice(padded, off, 4)),
          entry_handle |-> to_int32(Slice(padded, off + 4, 4)),
          match_key |-> k.key,
          action_id |-> action_id,
          action_data_len |-> to_int32(Slice(padded, k.off + 4, 4)),
          action_data |-> Slice(padded, k.off + 8, size),
          has_priority |-> has,
          priority |-> IF has THEN to_int32(Slice(padded, poff + 4, 4)) ELSE 0],
       off |-> poff + (IF has THEN 8 ELSE 4)]

RECURSIVE ReadEntries(_, _, _, _, _)
ReadEntries(fields, actions, buf, off, n) ==
  IF n = 0 THEN [entries |-> <<>>, off |-> off]
  ELSE LET r == ReadEntry(fields, actions, buf, off)
           rest == ReadEntries(fields, actions, buf, r.off, n - 1)
       IN  [entries |-> <<r.entry>> \o rest.entries, off |-> rest.off]

\* What the reader is to find for a device entry.
ExpectedEntry(actions, e) ==
  LET action_id == pi_p4info_action_id_from_name(actions, e.action_entry.action_name)
      decl == actions[action_id].params
  IN  [handle_hi |-> 0,
       entry_handle |-> e.entry_handle,
       match_key |-> e.match_key,
       action_id |-> action_id,
       action_data_len |-> Sum([i \in 1..Len(decl) |-> nbytes_of(decl[i])]),
       action_data |-> PaddedParams(decl, e.action_entry.action_data),
       has_priority |-> e.options.isset_priority,
       priority |-> IF e.options.isset_priority THEN e.options.priority ELSE 0]

\* C7: each entry is written as handle (8), match fields, action id (4),
\* action data length (4, the action's declared size), action data,
\* properties bitmap (4) and a priority (4) exactly when the bitmap's
\* priority bit is set; a reader driven by the schema recovers handle, match
\* fields, action id, action data and the presence of a priority.
C7_ReaderRecovers ==
  FetchReturned =>
    LET r == ReadEntries(p4info.fields, p4info.actions, res.entries.written, 0,
                         res.num_entries)
    IN  /\ res.num_entries = Len(bm.entries)
        /\ r.off = Len(res.entries.written)
        /\ r.entries = [i \in 1..Len(bm.entries) |->
                          ExpectedEntry(p4info.actions, bm.entries[i])]

C7_Witness ==
  /\ FetchReturned
  /\ Len(bm.entries) = 2
  /\ Len(p4info.fields) = 2
  /\ p4info.fields[1].match_type = "EXACT"
  /\ p4info.fields[2].match_type = "TERNARY"
  /\ bm.entries[1].options.isset_priority
  /\ ~bm.entries[2].options.isset_priority
  /\ bm.entries[1].entry_handle = bm.entries[2].entry_handle
  /\ bm.entries[1].match_key = bm.entries[2].match_key
  /\ bm.entries[1].action_entry = bm.entries[2].action_entry

SchemaViolations ==
  {j \in 1..Len(trace) :
     trace[j].ev = "assert" /\ trace[j].what \in {"num_params", "param_size"}}

\* C10 as stated: in no dispatcher operation does the device call precede
\* the detection of a schema violation (parameter count or parameter width).
C10_ViolationBeforeDevice ==
  req.op \in DispatcherOps =>
    \A j \in SchemaViolations : \A i \in DeviceEvents : ~(i < j)

ViolatesSchema(actions, action_entry) ==
  LET decl == actions[pi_p4info_action_id_from_name(actions, action_entry.action_name)].params
  IN  Len(decl) # Len(action_entry.action_data)
        \/ Oversized(decl, action_entry.action_data)

\* The device's response to the request carries a schema violation.
ResponseViolatesSchema ==
  \/ /\ req.op = "default_action_get"
     /\ bm.default_entry.action_type = "ACTION_DATA"
     /\ ViolatesSchema(p4info.actions, bm.default_entry)
  \/ /\ req.op = "entries_fetch"
     /\ \E i \in 1..Len(bm.entries) :
          ViolatesSchema(p4info.actions, bm.entries[i].action_entry)

\* C10 amended: the codec checks what the device returned, so a schema
\* violation is detected after the request's one device call has returned
\* without error (in default_action_get and entries_fetch, the operations
\* that pack action data); it then aborts the request, which returns no
\* status.  No operation detects one before its device call.
C10_ViolationAbortsAfterDevice ==
  /\ \A j \in SchemaViolations :
       /\ req.op \in {"default_action_get", "entries_fetch"}
       /\ j = Len(trace)
       /\ DeviceEvents = {1}
       /\ trace[1].out.ok
  /\ (req.op \in DispatcherOps /\ pc # "call" /\ ResponseViolatesSchema
        /\ trace[1].out.ok) =>
       /\ pc = "abort"
       /\ status = NoStatus
       /\ SchemaViolations = {Len(trace)}

C10_Witness ==
  /\ req.op = "entries_fetch"
  /\ pc = "abort"
  /\ Len(bm.entries) = 2
  /\ ~ViolatesSchema(p4info.actions, bm.entries[1].action_entry)
  /\ trace[Len(trace)] = AssertFailed("param_size")
  /\ trace[1].ev = "device"

\* C11: _pi_table_entry_add sends a priority option exactly when the key has
\* a TERNARY or RANGE field; the value sent is the caller's priority when the
\* entry properties have the priority property set and 0 otherwise; without
\* such a field no priority is sent, whatever the caller supplied.  The key
\* is decoded before the device is called, and the decoded key is what is sent.
C11_PriorityIffRequired ==
  (req.op = "entry_add" /\ pc # "call") =>
    LET props == req.table_entry.entry_properties
        sent == trace[2].args.options
    IN  /\ Len(trace) = 2
        /\ trace[1].ev = "build_key"
        /\ trace[2].ev = "device"
        /\ trace[2].args.mkey = build_key(p4info.fields, req.match_key).key
        /\ sent.isset_priority <=> HasTernaryOrRange(p4info.fields)
        /\ sent.isset_priority =>
             sent.priority = (IF ~props.is_null /\ props.priority_set
                                THEN props.priority ELSE 0)

C11_Witness ==
  /\ req.op = "entry_add"
  /\ pc = "ret"
  /\ Len(p4info.fields) = 2
  /\ p4info.fields[1].match_type = "EXACT"
  /\ p4info.fields[2].match_type = "TERNARY"
  /\ req.table_entry.entry_properties.priority_set
  /\ trace[2].fn = "bm_mt_add_entry"
  /\ trace[2].args.options = [isset_priority |-> TRUE, priority |-> 9]

====
